---- MODULE Spec2Model ----
(***************************************************************************)
(* A model of the Authalla TypeScript SDK request pipeline: configuration  *)
(* validation (utils.ts), the error classes (errors.ts) and the client     *)
(* (client.ts: constructor, setAccessToken, getProfile, updateProfile,     *)
(* request, handleErrorResponse).                                          *)
(*                                                                         *)
(* Conventions                                                             *)
(*  - An optional JavaScript value is a set: {} is undefined, {v} is v.    *)
(*  - A string is a sequence of lexemes.  White space, "/" and the other   *)
(*    characters the code looks at are lexemes on their own; the names     *)
(*    passed to updateProfile are sequences of single characters, so that  *)
(*    Len is the code's .length.                                           *)
(*  - A thrown or rejected value, and any opaque object, is a record       *)
(*    [kind, message, code, status, details].                              *)
(*  - Spec is the client used by a sequential caller: one operation at a   *)
(*    time, the next one started after the previous call's promise has     *)
(*    settled or been abandoned.                                           *)
(*  - SpecConcurrent is the client shared by concurrent callers: up to     *)
(*    MaxCalls calls outstanding at a time, kept in `calls`, with          *)
(*    setAccessToken invoked between any two steps of theirs.  Every       *)
(*    action is one run of JavaScript between two awaits.                  *)
(*  - SpecTwoClients is Spec with a second instance of the class, `other`, *)
(*    constructed and given tokens while the first client is used.         *)
(*  - SpecLive is Spec with the one assumption that a timer that is armed  *)
(*    expires.                                                             *)
(***************************************************************************)
EXTENDS Integers, Sequences, FiniteSets, TLC

VARIABLES client, ctor, setter, call, calls, other

vars == <<client, ctor, setter, call, calls, other>>

----------------------------------------------------------------------------
(* Optional values *)

Undefined == {}

Some(v) == {v}

The(o) == CHOOSE v \in o : TRUE

----------------------------------------------------------------------------
(* Strings *)

Rep(ch, n) == [i \in 1..n |-> ch]

IsSpace(ch) == ch \in {" ", "\t"}

RECURSIVE TrimStart(_)
TrimStart(s) ==
  IF Len(s) > 0 /\ IsSpace(s[1]) THEN TrimStart(Tail(s)) ELSE s

RECURSIVE TrimEnd(_)
TrimEnd(s) ==
  IF Len(s) > 0 /\ IsSpace(s[Len(s)])
  THEN TrimEnd(SubSeq(s, 1, Len(s) - 1))
  ELSE s

\* String.prototype.trim: white space is removed from both ends only.
Trim(s) == TrimEnd(TrimStart(s))

EndsWith(s, ch) == Len(s) > 0 /\ s[Len(s)] = ch

----------------------------------------------------------------------------
(* Error values (errors.ts) *)

Obj(kind, message, code, status, details) ==
  [kind |-> kind, message |-> message, code |-> code, status |-> status,
   details |-> details]

\* new Error(message), new TypeError(message), new SyntaxError(message)
PlainError(kind, message) == Obj(kind, message, Undefined, Undefined, Undefined)

AuthallaError(message, code, status, details) ==
  Obj("AuthallaError", message, Some(code), status, details)

\* AuthallaValidationError dropping the details it is given.
AuthallaValidationError_NoDetails(message, details) ==
  [AuthallaError(message, "validation_error", Some(400), Undefined)
     EXCEPT !.kind = "AuthallaValidationError"]

AuthallaValidationError(message, details) ==
  [AuthallaError(message, "validation_error", Some(400), details)
     EXCEPT !.kind = "AuthallaValidationError"]

\* AuthallaAuthenticationError always using its default code.
AuthallaAuthenticationError_DefaultCode(message, code, status, details) ==
  [AuthallaError(message, "invalid_token", Some(status), details)
     EXCEPT !.kind = "AuthallaAuthenticationError"]

AuthallaAuthenticationError(message, code, status, details) ==
  [AuthallaError(message, code, Some(status), details)
     EXCEPT !.kind = "AuthallaAuthenticationError"]

AuthallaNetworkError(message, originalError) ==
  [AuthallaError(message, "network_error", Undefined, originalError)
     EXCEPT !.kind = "AuthallaNetworkError"]

AuthallaRateLimitError(message) ==
  [AuthallaError(message, "rate_limit_exceeded", Some(429), Undefined)
     EXCEPT !.kind = "AuthallaRateLimitError"]

\* error instanceof AuthallaError
AuthallaKinds ==
  {"AuthallaError", "AuthallaValidationError", "AuthallaAuthenticationError",
   "AuthallaNetworkError", "AuthallaRateLimitError"}

InstanceOfAuthallaError(e) == e.kind \in AuthallaKinds

\* error instanceof Error
ErrorKinds == AuthallaKinds \cup {"Error", "TypeError", "SyntaxError"}

----------------------------------------------------------------------------
(* Validators (utils.ts) *)

\* A JavaScript value handed in as an access token.
JsString(s) == [type |-> "string", str |-> s, num |-> 0]

JsNumber(n) == [type |-> "number", str |-> <<>>, num |-> n]

JsUndefined == [type |-> "undefined", str |-> <<>>, num |-> 0]

JsNull == [type |-> "null", str |-> <<>>, num |-> 0]

\* !v
Falsy(v) ==
  \/ v.type \in {"undefined", "null"}
  \/ v.type = "string" /\ v.str = <<>>
  \/ v.type = "number" /\ v.num = 0

SpecialSchemes == {"http", "https", "ftp", "ws", "wss", "file"}

Schemes == SpecialSchemes \cup {"mailto"}

\* new URL(url) without a base: the protocol of the parsed URL, or undefined
\* when the parser throws (no scheme, or a special scheme without a host).
ParseUrlProtocol(url) ==
  IF Len(url) >= 2 /\ url[1] \in Schemes /\ url[2] = ":"
  THEN LET rest == SubSeq(url, 3, Len(url))
           host == {i \in 1..Len(rest) : rest[i] # "/"}
       IN IF url[1] \in SpecialSchemes /\ url[1] # "file" /\ host = {}
          THEN Undefined
          ELSE Some(<<url[1], ":">>)
  ELSE Undefined

MsgBaseUrlRequired == <<"baseUrl", " ", "is", " ", "required">>

MsgProtocol ==
  <<"baseUrl", " ", "must", " ", "use", " ", "https", ":", "/", "/", " ",
    "protocol", " ", "(", "or", " ", "http", ":", "/", "/", " ", "for", " ",
    "local", " ", "development", ")">>

MsgInvalidUrl == <<"Invalid", " ", "URL">>

MsgInvalidBaseUrl(url, inner) ==
  <<"Invalid", " ", "baseUrl", " ", "format", ":", " ">> \o url
    \o <<".", " ">> \o inner

\* validateBaseUrl: the error thrown, or undefined when it returns.
\* url is an optional string.
validateBaseUrl(url) ==
  IF url = Undefined \/ The(url) = <<>>
  THEN Some(PlainError("Error", MsgBaseUrlRequired))
  ELSE LET protocol == ParseUrlProtocol(The(url))
       IN IF protocol = Undefined
          THEN Some(PlainError("Error",
                               MsgInvalidBaseUrl(The(url), MsgInvalidUrl)))
          ELSE IF The(protocol) # <<"https", ":">>
                  /\ The(protocol) # <<"http", ":">>
               THEN Some(PlainError("Error",
                                    MsgInvalidBaseUrl(The(url), MsgProtocol)))
               ELSE Undefined

MsgTokenRequired ==
  <<"accessToken", " ", "is", " ", "required", " ", "and", " ", "must", " ",
    "be", " ", "a", " ", "string">>

MsgTokenEmpty == <<"accessToken", " ", "cannot", " ", "be", " ", "empty">>

\* validateAccessToken without the test of the trimmed length.
validateAccessToken_NoTrim(token) ==
  IF Falsy(token) \/ token.type # "string"
  THEN Some(PlainError("Error", MsgTokenRequired))
  ELSE Undefined

\* validateAccessToken: the error thrown, or undefined when it returns.
validateAccessToken(token) ==
  IF Falsy(token) \/ token.type # "string"
  THEN Some(PlainError("Error", MsgTokenRequired))
  ELSE IF Len(Trim(token.str)) = 0
       THEN Some(PlainError("Error", MsgTokenEmpty))
       ELSE Undefined

\* normalizeBaseUrl
\* normalizeBaseUrl removing every trailing slash.
normalizeBaseUrl_StripsAll(url) ==
  LET RECURSIVE strip(_)
      strip(u) == IF EndsWith(u, "/")
                  THEN strip(SubSeq(u, 1, Len(u) - 1))
                  ELSE u
  IN strip(url)

normalizeBaseUrl(url) ==
  IF EndsWith(url, "/") THEN SubSeq(url, 1, Len(url) - 1) ELSE url

----------------------------------------------------------------------------
(* Client construction and token update (client.ts) *)

DefaultTimeout == 30000

MsgCannotReadBind ==
  <<"Cannot", " ", "read", " ", "properties", " ", "of", " ", "undefined",
    " ", "(", "reading", " ", "'bind'", ")">>

\* new AuthallaClient(config).  config.fetch is an optional transport,
\* config.timeout an optional number, globalFetch tells whether the ambient
\* globalThis.fetch exists.  The result is the error thrown or the client.
Constructor(config, globalFetch) ==
  LET badUrl == validateBaseUrl(config.baseUrl)
      badToken == validateAccessToken(config.accessToken)
      failed(e) == [thrown |-> e, client |-> Undefined]
  IN IF badUrl # Undefined THEN failed(badUrl)
     ELSE IF badToken # Undefined THEN failed(badToken)
     ELSE IF config.fetch = Undefined /\ ~globalFetch
          THEN failed(Some(PlainError("TypeError", MsgCannotReadBind)))
     ELSE [thrown |-> Undefined,
           client |-> Some(
             [baseUrl |-> normalizeBaseUrl(The(config.baseUrl)),
              accessToken |-> config.accessToken.str,
              fetchImpl |-> IF config.fetch # Undefined
                            THEN The(config.fetch)
                            ELSE "globalThis.fetch",
              timeout |-> IF config.timeout = Undefined
                             \/ The(config.timeout) = 0
                          THEN DefaultTimeout
                          ELSE The(config.timeout)])]

\* client.setAccessToken(token): the error thrown and the client afterwards.
\* setAccessToken assigning the token before validating it.
setAccessToken_AssignsFirst(c, token) ==
  [thrown |-> validateAccessToken(token),
   client |-> [c EXCEPT !.accessToken = token.str]]

setAccessToken(c, token) ==
  LET bad == validateAccessToken(token)
  IN IF bad # Undefined
     THEN [thrown |-> bad, client |-> c]
     ELSE [thrown |-> Undefined,
           client |-> [c EXCEPT !.accessToken = token.str]]

----------------------------------------------------------------------------
(* JSON text of a request body *)

IsJsonSpecial(ch) == ch \in {"\"", "\\"}

\* The characters of a JSON string literal: quote and backslash are escaped.
RECURSIVE JsonEscape(_)
JsonEscape(s) ==
  IF Len(s) = 0 THEN <<>>
  ELSE IF Len(s) = 1
       THEN IF IsJsonSpecial(s[1]) THEN <<"\\", s[1]>> ELSE s
       ELSE LET m == Len(s) \div 2
            IN JsonEscape(SubSeq(s, 1, m)) \o JsonEscape(SubSeq(s, m + 1, Len(s)))

JsonNamePrefix == <<"{", "\"", "name", "\"", ":", "\"">>

JsonNameSuffix == <<"\"", "}">>

\* JSON.stringify(body) for a body whose only field is name.
JSONStringify(body) == JsonNamePrefix \o JsonEscape(body.name) \o JsonNameSuffix

----------------------------------------------------------------------------
(* Requests (client.ts) *)

MaxNameLength == 255

MsgNameEmpty == <<"Name", " ", "cannot", " ", "be", " ", "empty">>

MsgNameTooLong ==
  <<"Name", " ", "cannot", " ", "exceed", " ", "255", " ", "characters">>

PathUserinfo == <<"/", "oauth2", "/", "userinfo">>

PathMe == <<"/", "oauth2", "/", "me">>

\* ValidateName without the trim: the raw name is tested and sent.
ValidateName_NoTrim(data) ==
  IF data.name = Undefined \/ The(data.name) = <<>>
  THEN [trimmedName |-> data.name,
        thrown |-> Some(AuthallaValidationError(MsgNameEmpty, Undefined))]
  ELSE IF Len(The(data.name)) > MaxNameLength
       THEN [trimmedName |-> data.name,
             thrown |-> Some(AuthallaValidationError(MsgNameTooLong,
                                                     Undefined))]
       ELSE [trimmedName |-> data.name, thrown |-> Undefined]

\* ValidateName with the limit off by one (>= instead of >).
ValidateName_OffByOne(data) ==
  LET trimmedName == IF data.name = Undefined
                     THEN Undefined
                     ELSE Some(Trim(The(data.name)))
  IN IF trimmedName = Undefined \/ The(trimmedName) = <<>>
     THEN [trimmedName |-> trimmedName,
           thrown |-> Some(AuthallaValidationError(MsgNameEmpty, Undefined))]
     ELSE IF Len(The(trimmedName)) >= MaxNameLength
          THEN [trimmedName |-> trimmedName,
                thrown |-> Some(AuthallaValidationError(MsgNameTooLong,
                                                        Undefined))]
          ELSE [trimmedName |-> trimmedName, thrown |-> Undefined]

\* updateProfile, lines 120-128: the trimmed name and the error thrown by
\* the client-side validation (undefined when the name passes).
\* data.name is an optional string.
ValidateName(data) ==
  LET trimmedName == IF data.name = Undefined
                     THEN Undefined
                     ELSE Some(Trim(The(data.name)))
  IN IF trimmedName = Undefined \/ The(trimmedName) = <<>>
     THEN [trimmedName |-> trimmedName,
           thrown |-> Some(AuthallaValidationError(MsgNameEmpty, Undefined))]
     ELSE IF Len(The(trimmedName)) > MaxNameLength
          THEN [trimmedName |-> trimmedName,
                thrown |-> Some(AuthallaValidationError(MsgNameTooLong,
                                                        Undefined))]
          ELSE [trimmedName |-> trimmedName, thrown |-> Undefined]

\* Headers with the bare token as Authorization.
Headers_NoBearer(c) ==
  ("Authorization" :> c.accessToken)
    @@ ("Content-Type" :> <<"application/json">>)
    @@ ("Accept" :> <<"application/json">>)

Headers(c) ==
  ("Authorization" :> (<<"Bearer", " ">> \o c.accessToken))
    @@ ("Content-Type" :> <<"application/json">>)
    @@ ("Accept" :> <<"application/json">>)

\* request, lines 143-162: the arguments the transport is invoked with.
\* body is an optional object.
BuildRequest(c, method, path, body) ==
  [impl |-> c.fetchImpl,
   url |-> c.baseUrl \o path,
   options |-> [method |-> method,
                headers |-> Headers(c),
                body |-> IF body # Undefined /\ method \in {"PUT", "POST"}
                         THEN Some(JSONStringify(The(body)))
                         ELSE Undefined]]

\* timeoutPromise: the value the timer rejects with.
\* The timer's error naming the default timeout instead of the one given.
TimeoutError_DefaultMs(timeoutMs) ==
  PlainError("Error",
             <<"Request", " ", "timeout", " ", "after", " ",
               ToString(DefaultTimeout), "ms">>)

TimeoutError(timeoutMs) ==
  PlainError("Error",
             <<"Request", " ", "timeout", " ", "after", " ",
               ToString(timeoutMs), "ms">>)

MsgNetworkFailed == <<"Network", " ", "request", " ", "failed", ":", " ">>

MsgCannotReadMessage(of) ==
  <<"Cannot", " ", "read", " ", "properties", " ", "of", " ", of, " ", "(",
    "reading", " ", "'message'", ")">>

\* (error as Error).message inside a template literal
MessageText(error) ==
  IF error.kind \in ErrorKinds THEN error.message ELSE <<"undefined">>

\* The catch block wrapping every caught value, taxonomy errors included.
Catch_AlwaysWraps(error) ==
  IF error.kind \in {"null", "undefined"}
  THEN PlainError("TypeError", MsgCannotReadMessage(error.kind))
  ELSE AuthallaNetworkError(MsgNetworkFailed \o MessageText(error),
                            Some(error))

\* request, lines 174-185: what the call rejects with when `error` is
\* caught.  Reading .message of null or undefined throws a TypeError.
Catch(error) ==
  IF InstanceOfAuthallaError(error) THEN error
  ELSE IF error.kind \in {"null", "undefined"}
       THEN PlainError("TypeError", MsgCannotReadMessage(error.kind))
       ELSE AuthallaNetworkError(MsgNetworkFailed \o MessageText(error),
                                 Some(error))

----------------------------------------------------------------------------
(* Failure classifier (client.ts, handleErrorResponse) *)

MsgUnknownErrorOccurred == <<"Unknown", " ", "error", " ", "occurred">>

MsgAnErrorOccurred == <<"An", " ", "error", " ", "occurred">>

\* Lines 192-202: read is the outcome of response.json(), either
\* [settled |-> "resolved", value |-> optional payload (null is undefined)]
\* or [settled |-> "rejected", value |-> the rejection].
\* The substitute payload ignoring the status text of the response.
ErrorData_NoStatusText(response, read) ==
  IF read.settled = "resolved"
  THEN read.value
  ELSE Some([error |-> Some("unknown_error"),
             error_description |-> Some(MsgUnknownErrorOccurred),
             details |-> Undefined])

ErrorData(response, read) ==
  IF read.settled = "resolved"
  THEN read.value
  ELSE Some([error |-> Some("unknown_error"),
             error_description |-> Some(IF response.statusText # <<>>
                                        THEN response.statusText
                                        ELSE MsgUnknownErrorOccurred),
             details |-> Undefined])

\* a || b on optional strings: "" and undefined are falsy
OrElse(a, empty, b) == IF a = Undefined \/ The(a) = empty THEN b ELSE The(a)

\* handleErrorResponse raising AuthenticationError for every 403.
handleErrorResponse_403AlwaysAuth(response, errorData) ==
  LET errorCode == IF errorData = Undefined
                   THEN "unknown_error"
                   ELSE OrElse(The(errorData).error, "", "unknown_error")
      errorMessage == IF errorData = Undefined
                      THEN MsgAnErrorOccurred
                      ELSE OrElse(The(errorData).error_description, <<>>,
                                  MsgAnErrorOccurred)
      details == IF errorData = Undefined
                 THEN Undefined
                 ELSE The(errorData).details
      status == response.status
  IN CASE status = 400 ->
            IF errorCode = "validation_error"
            THEN AuthallaValidationError(errorMessage, details)
            ELSE AuthallaError(errorMessage, errorCode, Some(400), details)
       [] status \in {401, 403} ->
            AuthallaAuthenticationError(errorMessage, errorCode, status,
                                        details)
       [] status = 429 -> AuthallaRateLimitError(errorMessage)
       [] OTHER -> AuthallaError(errorMessage, errorCode, Some(status), details)

\* handleErrorResponse without the case for 429, which falls to the default.
handleErrorResponse_No429(response, errorData) ==
  LET errorCode == IF errorData = Undefined
                   THEN "unknown_error"
                   ELSE OrElse(The(errorData).error, "", "unknown_error")
      errorMessage == IF errorData = Undefined
                      THEN MsgAnErrorOccurred
                      ELSE OrElse(The(errorData).error_description, <<>>,
                                  MsgAnErrorOccurred)
      details == IF errorData = Undefined
                 THEN Undefined
                 ELSE The(errorData).details
      status == response.status
  IN CASE status = 400 ->
            IF errorCode = "validation_error"
            THEN AuthallaValidationError(errorMessage, details)
            ELSE AuthallaError(errorMessage, errorCode, Some(400), details)
       [] status = 401 ->
            AuthallaAuthenticationError(errorMessage, errorCode, 401, details)
       [] status = 403 ->
            IF errorCode = "insufficient_scope"
            THEN AuthallaAuthenticationError(errorMessage, errorCode, 403,
                                             details)
            ELSE AuthallaError(errorMessage, errorCode, Some(403), details)
       [] OTHER -> AuthallaError(errorMessage, errorCode, Some(status), details)

\* Lines 204-257: the error thrown for a response and its error data.
handleErrorResponse(response, errorData) ==
  LET errorCode == IF errorData = Undefined
                   THEN "unknown_error"
                   ELSE OrElse(The(errorData).error, "", "unknown_error")
      errorMessage == IF errorData = Undefined
                      THEN MsgAnErrorOccurred
                      ELSE OrElse(The(errorData).error_description, <<>>,
                                  MsgAnErrorOccurred)
      details == IF errorData = Undefined
                 THEN Undefined
                 ELSE The(errorData).details
      status == response.status
  IN CASE status = 400 ->
            IF errorCode = "validation_error"
            THEN AuthallaValidationError(errorMessage, details)
            ELSE AuthallaError(errorMessage, errorCode, Some(400), details)
       [] status = 401 ->
            AuthallaAuthenticationError(errorMessage, errorCode, 401, details)
       [] status = 403 ->
            IF errorCode = "insufficient_scope"
            THEN AuthallaAuthenticationError(errorMessage, errorCode, 403,
                                             details)
            ELSE AuthallaError(errorMessage, errorCode, Some(403), details)
       [] status = 404 ->
            AuthallaError(errorMessage, errorCode, Some(404), details)
       [] status = 429 -> AuthallaRateLimitError(errorMessage)
       [] status \in {500, 503} ->
            AuthallaError(errorMessage, errorCode, Some(status), details)
       [] OTHER -> AuthallaError(errorMessage, errorCode, Some(status), details)

----------------------------------------------------------------------------
(* Inputs of the model *)

MaxPad == 1

MaxSlashes == 2

TenantUrl == <<"https", ":", "/", "/", "tenant.authalla.com">>

ValidBaseUrls ==
  {TenantUrl \o Rep("/", n) : n \in 0..MaxSlashes}
    \cup {<<"http", ":", "/", "/", "localhost">>}

UnparseableBaseUrls == {<<"not-a-url">>, <<"https", ":", "/", "/">>}

NonHttpBaseUrls ==
  {<<"ftp", ":", "/", "/", "tenant.authalla.com">>, <<"mailto", ":", "a@b">>}

\* config.baseUrl: undefined, "", or one of the strings above
BaseUrlInputs ==
  {Undefined, Some(<<>>)}
    \cup {Some(u) : u \in ValidBaseUrls \cup UnparseableBaseUrls
                            \cup NonHttpBaseUrls}

ValidTokens == {JsString(<<"tok1">>), JsString(<<" ", "tok2", " ">>)}

BlankTokens ==
  {JsString(Rep(" ", n)) : n \in 1..MaxPad} \cup {JsString(<<"\t">>)}

InvalidTokens ==
  {JsString(<<>>), JsUndefined, JsNull, JsNumber(0), JsNumber(42)}
    \cup BlankTokens

TokenInputs == ValidTokens \cup InvalidTokens

Configs ==
  [baseUrl : BaseUrlInputs,
   accessToken : TokenInputs,
   fetch : {Undefined, Some("config.fetch")},
   timeout : {Undefined, Some(0), Some(50)}]

NameCores ==
  {<<>>, <<"a", " ", "\"">>, Rep("a", MaxNameLength),
   Rep("a", MaxNameLength + 1)}

Names ==
  {Rep(" ", l) \o core \o Rep(" ", t) :
     l \in 0..MaxPad, t \in 0..MaxPad, core \in NameCores}

\* the argument of updateProfile
DataInputs == {[name |-> Undefined]} \cup {[name |-> Some(n)] : n \in Names}

OkResponse == [ok |-> TRUE, status |-> 200, statusText |-> <<"OK">>]

ErrorStatuses == {400, 401, 403, 404, 429, 500, 503, 418}

ErrorResponses ==
  {[ok |-> FALSE, status |-> s, statusText |-> <<>>] : s \in ErrorStatuses}
    \cup {[ok |-> FALSE, status |-> 401, statusText |-> <<"Unauthorized">>]}

Responses == {OkResponse} \cup ErrorResponses

DetailObject == Obj("Object", <<"field", ":", "name">>, Undefined, Undefined, Undefined)

Payload(error, description, details) ==
  [error |-> error, error_description |-> description, details |-> details]

\* bodies of non-success responses; undefined is the JSON value null
ErrorBodies ==
  {Undefined,
   Some(Payload(Undefined, Undefined, Undefined)),
   Some(Payload(Some("invalid_token"), Some(<<"expired">>), Undefined)),
   Some(Payload(Some("validation_error"), Some(<<"bad", " ", "name">>),
                Some(DetailObject))),
   Some(Payload(Some("insufficient_scope"), Undefined, Undefined)),
   Some(Payload(Some(""), Some(<<>>), Undefined)),
   Some(Payload(Some("rate_limited"), Some(<<"slow", " ", "down">>),
                Some(DetailObject)))}

\* bodies of success responses
Profiles ==
  {Undefined,
   Some([sub |-> "123456789", name |-> <<"John", " ", "Doe">>]),
   Some([sub |-> "987654321", name |-> <<"a">>])}

ThrownNull == Obj("null", <<>>, Undefined, Undefined, Undefined)

ThrownString == Obj("string", <<"oops">>, Undefined, Undefined, Undefined)

ParseFailure == PlainError("SyntaxError", <<"Unexpected", " ", "token">>)

\* what response.json() may reject with
JsonRejections == {ParseFailure, ThrownNull}

ConnectionError == PlainError("Error", <<"Network", " ", "error">>)

\* what the transport may reject with
TransportRejections ==
  {ConnectionError,
   PlainError("TypeError", <<"fetch", " ", "failed">>),
   ThrownNull,
   ThrownString,
   AuthallaError(<<"boom">>, "server_error", Some(500), Undefined),
   AuthallaValidationError(<<"bad">>, Some(DetailObject)),
   AuthallaAuthenticationError(<<"denied">>, "invalid_token", 401, Undefined),
   AuthallaNetworkError(<<"offline">>, Some(ConnectionError)),
   AuthallaRateLimitError(<<"slow", " ", "down">>)}

\* what the transport may throw before it returns a promise
TransportThrows == {PlainError("TypeError", <<"Invalid", " ", "URL">>)}

----------------------------------------------------------------------------
(* State *)

\* No call has been started since the caller's last operation.
IdleCall ==
  [pc |-> "idle", op |-> "none", data |-> Undefined, fetchLog |-> <<>>,
   timer |-> "none", transport |-> "none", race |-> "none",
   response |-> Undefined,
   dropped |-> Undefined,
   read |-> Undefined, jsonReads |-> 0, caught |-> Undefined,
   result |-> Undefined, error |-> Undefined]

\* The most calls that callers of one client have outstanding at a time.
MaxCalls == 2

Init ==
  /\ client = Undefined
  /\ ctor = Undefined
  /\ setter = Undefined
  /\ call = IdleCall
  /\ calls = [k \in 1..MaxCalls |-> IdleCall]
  /\ other = Undefined

\* The caller has no call outstanding.
CallerReady == call.pc = "idle"

----------------------------------------------------------------------------
(* The caller's operations *)

\* new AuthallaClient(config), the caller's first operation
Construct(config, globalFetch) ==
  /\ client = Undefined
  /\ ctor = Undefined
  /\ LET r == Constructor(config, globalFetch)
     IN /\ client' = r.client
        /\ ctor' = Some([config |-> config, globalFetch |-> globalFetch,
                         thrown |-> r.thrown])
  /\ UNCHANGED <<setter, call, calls, other>>

\* setAccessToken reaching into the requests already sent: their
\* Authorization header follows the token the client holds.
SetAccessToken_RewritesInFlight(token) ==
  /\ client # Undefined
  /\ CallerReady
  /\ LET r == setAccessToken(The(client), token)
         rewritten(c) ==
           IF c.fetchLog = <<>>
           THEN c
           ELSE [c EXCEPT !.fetchLog[1].options.headers = Headers(r.client)]
     IN /\ client' = Some(r.client)
        /\ setter' = Some([token |-> token, thrown |-> r.thrown])
        /\ calls' = [k \in DOMAIN calls |-> rewritten(calls[k])]
  /\ ctor' = Undefined
  /\ call' = IdleCall
  /\ UNCHANGED other

\* setAccessToken keeping the token in a place every instance reads: the
\* other client holds the new token too.
SetAccessToken_SharedToken(token) ==
  /\ client # Undefined
  /\ CallerReady
  /\ LET r == setAccessToken(The(client), token)
     IN /\ client' = Some(r.client)
        /\ setter' = Some([token |-> token, thrown |-> r.thrown])
        /\ other' = IF other = Undefined
                    THEN Undefined
                    ELSE Some([The(other) EXCEPT
                                 !.accessToken = r.client.accessToken])
  /\ ctor' = Undefined
  /\ call' = IdleCall
  /\ UNCHANGED calls

\* client.setAccessToken(token)
SetAccessToken(token) ==
  /\ client # Undefined
  /\ CallerReady
  /\ LET r == setAccessToken(The(client), token)
     IN /\ client' = Some(r.client)
        /\ setter' = Some([token |-> token, thrown |-> r.thrown])
  /\ ctor' = Undefined
  /\ call' = IdleCall
  /\ UNCHANGED <<calls, other>>

\* request, lines 143-164: the transport is invoked; it throws `thrown`
\* (an optional value) or returns a promise that is raced against the timer.
StartRequest(op, data, method, path, body, thrown) ==
  LET started == [IdleCall EXCEPT
                    !.op = op, !.data = data,
                    !.fetchLog = <<BuildRequest(The(client), method, path,
                                                body)>>]
  IN IF thrown # Undefined
     THEN [started EXCEPT !.pc = "rejected", !.transport = "threw",
                          !.caught = thrown,
                          !.error = Some(Catch(The(thrown)))]
     ELSE [started EXCEPT !.pc = "awaitFetch", !.transport = "pending",
                          !.timer = "armed", !.race = "open"]

\* client.getProfile()
\* getProfile, up to the first await of request
getProfile(thrown) ==
  StartRequest("getProfile", Undefined, "GET", PathUserinfo, Undefined, thrown)

\* updateProfile, up to its throw or the first await of request
updateProfile(data, thrown) ==
  LET v == ValidateName(data)
  IN IF v.thrown # Undefined
     THEN [IdleCall EXCEPT !.op = "updateProfile",
                           !.data = Some(data),
                           !.pc = "rejected",
                           !.error = v.thrown]
     ELSE StartRequest("updateProfile", Some(data), "PUT", PathMe,
                       Some([name |-> The(v.trimmedName)]), thrown)

\* client.getProfile()
GetProfile(thrown) ==
  /\ client # Undefined
  /\ CallerReady
  /\ call' = getProfile(thrown)
  /\ ctor' = Undefined
  /\ setter' = Undefined
  /\ UNCHANGED <<client, calls, other>>

\* updateProfile sending data.name as given instead of the trimmed name.
UpdateProfile_SendsRaw(data, thrown) ==
  /\ client # Undefined
  /\ CallerReady
  /\ LET v == ValidateName(data)
     IN call' = IF v.thrown # Undefined
                THEN [IdleCall EXCEPT !.op = "updateProfile",
                                      !.data = Some(data),
                                      !.pc = "rejected",
                                      !.error = v.thrown]
                ELSE StartRequest("updateProfile", Some(data), "PUT", PathMe,
                                  Some([name |-> The(data.name)]), thrown)
  /\ ctor' = Undefined
  /\ setter' = Undefined
  /\ UNCHANGED <<client, calls, other>>

\* client.updateProfile(data)
UpdateProfile(data, thrown) ==
  /\ client # Undefined
  /\ CallerReady
  /\ call' = updateProfile(data, thrown)
  /\ ctor' = Undefined
  /\ setter' = Undefined
  /\ UNCHANGED <<client, calls, other>>

----------------------------------------------------------------------------
(* The transport, the timer and the body reader *)

\* The call rejects with what the catch block makes of `error`.
Reject(c, error) ==
  [c EXCEPT !.pc = "rejected", !.caught = Some(error),
            !.error = Some(Catch(error))]

\* What the call `c` becomes when the transport's promise resolves.  If the
\* race is still open the response wins it and its body is read: by
\* handleErrorResponse when !response.ok, by request otherwise.  After the
\* timer has won, the response is dropped.
FetchResolved(c, response) ==
  IF c.pc = "awaitFetch"
  THEN [c EXCEPT !.transport = "settled",
                 !.race = "transport",
                 !.response = Some(response),
                 !.jsonReads = @ + 1,
                 !.pc = IF response.ok THEN "awaitJson" ELSE "awaitErrorJson"]
  ELSE [c EXCEPT !.transport = "settled", !.dropped = Some(response)]

\* What the call `c` becomes when the transport's promise rejects.
FetchRejected(c, error) ==
  IF c.pc = "awaitFetch"
  THEN [Reject(c, error) EXCEPT !.transport = "settled", !.race = "transport"]
  ELSE [c EXCEPT !.transport = "settled"]

\* What the call `c` becomes when the timer of timeoutPromise expires.  The
\* timer is never cleared, so it expires also after the transport has won
\* the race, without effect.
TimerFired(c, timeoutMs) ==
  IF c.pc = "awaitFetch"
  THEN [Reject(c, TimeoutError(timeoutMs)) EXCEPT !.timer = "fired",
                                                  !.race = "timer"]
  ELSE [c EXCEPT !.timer = "fired"]

\* handleErrorResponse returning for a status without a case of its own:
\* request goes on to parse the body as that of a success response.
JsonSettled_FallsThrough(c, read) ==
  LET d == [c EXCEPT !.read = Some(read)]
  IN IF c.pc = "awaitErrorJson"
     THEN IF The(c.response).status \in {400, 401, 403, 404, 429, 500, 503}
          THEN Reject(d, handleErrorResponse(The(c.response),
                                             ErrorData(The(c.response), read)))
          ELSE [d EXCEPT !.pc = "awaitJson", !.jsonReads = @ + 1]
     ELSE IF read.settled = "resolved"
          THEN [d EXCEPT !.pc = "resolved", !.result = Some(read.value)]
          ELSE Reject(d, read.value)

\* What the call `c` becomes when response.json() settles, with
\* `read` = [settled, value].
JsonSettled(c, read) ==
  LET d == [c EXCEPT !.read = Some(read)]
  IN IF c.pc = "awaitErrorJson"
     THEN Reject(d, handleErrorResponse(The(c.response),
                                        ErrorData(The(c.response), read)))
     ELSE IF read.settled = "resolved"
          THEN [d EXCEPT !.pc = "resolved", !.result = Some(read.value)]
          ELSE Reject(d, read.value)

\* The transport's promise resolves.
FetchResolves(response) ==
  /\ call.transport = "pending"
  /\ call' = FetchResolved(call, response)
  /\ UNCHANGED <<client, ctor, setter, calls, other>>

\* A transport rejection that still settles the call after the timer has won.
FetchRejects_LateOverrides(error) ==
  /\ call.transport = "pending"
  /\ call' = [Reject(call, error) EXCEPT
               !.transport = "settled",
               !.race = IF call.pc = "awaitFetch" THEN "transport" ELSE @]
  /\ UNCHANGED <<client, ctor, setter, calls, other>>

\* A transport rejection answered by invoking the transport a second time.
FetchRejects_Retries(error) ==
  /\ call.transport = "pending"
  /\ call' = IF call.pc = "awaitFetch"
             THEN IF Len(call.fetchLog) = 1
                  THEN [call EXCEPT !.fetchLog = @ \o @]
                  ELSE [Reject(call, error) EXCEPT !.transport = "settled",
                                                   !.race = "transport"]
             ELSE [call EXCEPT !.transport = "settled"]
  /\ UNCHANGED <<client, ctor, setter, calls, other>>

\* The transport's promise rejects.
FetchRejects(error) ==
  /\ call.transport = "pending"
  /\ call' = FetchRejected(call, error)
  /\ UNCHANGED <<client, ctor, setter, calls, other>>

\* A timer that does not settle the race (the call keeps waiting for the
\* transport).
TimerFires_WaitsForTransport ==
  /\ call.timer = "armed"
  /\ call' = [call EXCEPT !.timer = "fired"]
  /\ UNCHANGED <<client, ctor, setter, calls, other>>

\* The timer of timeoutPromise expires.
TimerFires ==
  /\ call.timer = "armed"
  /\ call' = TimerFired(call, The(client).timeout)
  /\ UNCHANGED <<client, ctor, setter, calls, other>>

\* response.json() of a success response read outside the try block: its
\* rejection reaches the caller as it is.
JsonSettles_ParseOutsideTry(read) ==
  /\ call.pc \in {"awaitJson", "awaitErrorJson"}
  /\ call' =
       LET c == [call EXCEPT !.read = Some(read)]
       IN IF call.pc = "awaitErrorJson"
          THEN Reject(c, handleErrorResponse(
                           The(call.response),
                           ErrorData(The(call.response), read)))
          ELSE IF read.settled = "resolved"
               THEN [c EXCEPT !.pc = "resolved", !.result = Some(read.value)]
               ELSE [c EXCEPT !.pc = "rejected", !.caught = Undefined,
                              !.error = Some(read.value)]
  /\ UNCHANGED <<client, ctor, setter, calls, other>>

\* response.json() settles, with `read` = [settled, value].
JsonSettles(read) ==
  /\ call.pc \in {"awaitJson", "awaitErrorJson"}
  /\ call' = JsonSettled(call, read)
  /\ UNCHANGED <<client, ctor, setter, calls, other>>

\* response.json() resolves with a body
JsonResolves(body) ==
  /\ body \in (IF call.pc = "awaitErrorJson" THEN ErrorBodies ELSE Profiles)
  /\ JsonSettles([settled |-> "resolved", value |-> body])

\* response.json() rejects
JsonRejects(error) == JsonSettles([settled |-> "rejected", value |-> error])

\* The caller's await of a settled call returns or throws: the caller takes
\* the outcome and is free to start its next operation.  A timer or a
\* transport promise still pending then can no longer affect anything.
Await ==
  /\ call.pc \in {"resolved", "rejected"}
  /\ call' = IdleCall
  /\ UNCHANGED <<client, ctor, setter, calls, other>>

Next ==
  \/ \E config \in Configs, globalFetch \in BOOLEAN :
       Construct(config, globalFetch)
  \/ \E token \in TokenInputs : SetAccessToken(token)
  \/ \E thrown \in {Undefined} \cup {Some(e) : e \in TransportThrows} :
       GetProfile(thrown)
  \/ \E data \in DataInputs,
        thrown \in {Undefined} \cup {Some(e) : e \in TransportThrows} :
       UpdateProfile(data, thrown)
  \/ \E response \in Responses : FetchResolves(response)
  \/ \E error \in TransportRejections : FetchRejects(error)
  \/ TimerFires
  \/ \E body \in ErrorBodies \cup Profiles : JsonResolves(body)
  \/ \E error \in JsonRejections : JsonRejects(error)
  \/ Await

Spec == Init /\ [][Next]_vars

----------------------------------------------------------------------------
(* Concurrent callers of one client *)

ConcurrentConfig ==
  [baseUrl |-> Some(TenantUrl), accessToken |-> JsString(<<"tok1">>),
   fetch |-> Some("config.fetch"), timeout |-> Some(50)]

\* a token to rotate to, the token of ConcurrentConfig, a rejected token
ConcurrentTokens ==
  {JsString(<<" ", "tok2", " ">>), JsString(<<"tok1">>), JsString(<<>>)}

ConcurrentData == [name |-> Some(<<" ", "a">>)]

ConcurrentResponses ==
  {OkResponse, [ok |-> FALSE, status |-> 401, statusText |-> <<>>]}

ConcurrentProfile == Some([sub |-> "123456789", name |-> <<"John", " ", "Doe">>])

ConcurrentErrorBody ==
  Some(Payload(Some("invalid_token"), Some(<<"expired">>), Undefined))

\* A caller starts a call while others are outstanding; calls are numbered
\* in the order they are started.
StartCall(k, started) ==
  /\ client # Undefined
  /\ calls[k].op = "none"
  /\ k > 1 => calls[k - 1].op # "none"
  /\ calls' = [calls EXCEPT ![k] = started]
  /\ UNCHANGED <<client, ctor, setter, call, other>>

ConcurrentGetProfile(k) == StartCall(k, getProfile(Undefined))

ConcurrentUpdateProfile(k, data) == StartCall(k, updateProfile(data, Undefined))

\* A step of the call numbered k.
StepCall(k, next) ==
  /\ calls' = [calls EXCEPT ![k] = next]
  /\ UNCHANGED <<client, ctor, setter, call, other>>

ConcurrentFetchResolves(k, response) ==
  /\ calls[k].transport = "pending"
  /\ StepCall(k, FetchResolved(calls[k], response))

ConcurrentFetchRejects(k, error) ==
  /\ calls[k].transport = "pending"
  /\ StepCall(k, FetchRejected(calls[k], error))

ConcurrentTimerFires(k) ==
  /\ calls[k].timer = "armed"
  /\ StepCall(k, TimerFired(calls[k], The(client).timeout))

ConcurrentJsonResolves(k) ==
  /\ calls[k].pc \in {"awaitJson", "awaitErrorJson"}
  /\ StepCall(k, JsonSettled(calls[k],
                             [settled |-> "resolved",
                              value |-> IF calls[k].pc = "awaitJson"
                                        THEN ConcurrentProfile
                                        ELSE ConcurrentErrorBody]))

NextConcurrent ==
  \/ Construct(ConcurrentConfig, TRUE)
  \/ \E token \in ConcurrentTokens : SetAccessToken(token)
  \/ \E k \in 1..MaxCalls : ConcurrentGetProfile(k)
  \/ \E k \in 1..MaxCalls : ConcurrentUpdateProfile(k, ConcurrentData)
  \/ \E k \in 1..MaxCalls, response \in ConcurrentResponses :
       ConcurrentFetchResolves(k, response)
  \/ \E k \in 1..MaxCalls : ConcurrentFetchRejects(k, ConnectionError)
  \/ \E k \in 1..MaxCalls : ConcurrentTimerFires(k)
  \/ \E k \in 1..MaxCalls : ConcurrentJsonResolves(k)

SpecConcurrent == Init /\ [][NextConcurrent]_vars

----------------------------------------------------------------------------
(* A second client *)

OtherConfig ==
  [baseUrl |-> Some(<<"http", ":", "/", "/", "localhost">> \o <<"/">>),
   accessToken |-> JsString(<<"tok3">>),
   fetch |-> Some("config.fetch"), timeout |-> Some(70)]

OtherTokens == {JsString(<<"tok1">>), JsString(<<"tok4">>), JsString(<<>>)}

\* new AuthallaClient(config), a second instance
OtherConstruct(config) ==
  /\ other = Undefined
  /\ other' = Constructor(config, TRUE).client
  /\ UNCHANGED <<client, ctor, setter, call, calls>>

\* setAccessToken(token) on the second instance
OtherSetAccessToken(token) ==
  /\ other # Undefined
  /\ other' = Some(setAccessToken(The(other), token).client)
  /\ UNCHANGED <<client, ctor, setter, call, calls>>

NextTwoClients ==
  \/ Next
  \/ OtherConstruct(OtherConfig)
  \/ \E token \in OtherTokens : OtherSetAccessToken(token)

SpecTwoClients == Init /\ [][NextTwoClients]_vars

----------------------------------------------------------------------------
(* The sequential caller, with timers that expire *)

\* setTimeout: a timer that is armed expires.  Nothing is assumed of the
\* transport or of response.json(), which may stay pending for ever.
SpecLive == Init /\ [][Next]_vars /\ WF_vars(TimerFires)

----------------------------------------------------------------------------
(* Vocabulary of the properties *)

Range(s) == {s[i] : i \in 1..Len(s)}

\* An optional name that is missing, empty or made of white space only.
IsBlankName(name) ==
  name = Undefined \/ \A i \in 1..Len(The(name)) : IsSpace(The(name)[i])

\* The positions of the escape backslashes of a JSON string literal's
\* characters: a backslash preceded by an even number of backslashes.
RECURSIVE BackslashRun(_, _)
BackslashRun(s, i) ==
  IF i >= 1 /\ s[i] = "\\" THEN 1 + BackslashRun(s, i - 1) ELSE 0

JsonUnescape(s) ==
  IF "\\" \notin Range(s) THEN s
  ELSE LET kept == {i \in 1..Len(s) :
                      ~(s[i] = "\\" /\ BackslashRun(s, i - 1) % 2 = 0)}
           nth(k) == CHOOSE i \in kept :
                       Cardinality({j \in kept : j <= i}) = k
       IN [k \in 1..Cardinality(kept) |-> s[nth(k)]]

\* JSON.parse of a request body: the object {name}, or undefined when the
\* text is not of that form.
JSONParse(text) ==
  LET n == Len(text)
      p == Len(JsonNamePrefix)
  IN IF n >= p + 2
        /\ SubSeq(text, 1, p) = JsonNamePrefix
        /\ SubSeq(text, n - 1, n) = JsonNameSuffix
     THEN Some([name |-> JsonUnescape(SubSeq(text, p + 1, n - 2))])
     ELSE Undefined

\* The transport was invoked exactly once in this call, with these arguments.
Invocation == call.fetchLog[1]

FixedHeaders(token) ==
  /\ DOMAIN Invocation.options.headers
       = {"Authorization", "Content-Type", "Accept"}
  /\ Invocation.options.headers["Authorization"] = <<"Bearer", " ">> \o token
  /\ Invocation.options.headers["Content-Type"] = <<"application/json">>
  /\ Invocation.options.headers["Accept"] = <<"application/json">>

IsValidationError(e, message) ==
  /\ e.kind = "AuthallaValidationError"
  /\ e.code = Some("validation_error")
  /\ e.message = message

----------------------------------------------------------------------------
(* C1: updateProfile with a missing, empty or white-space-only name rejects *)
(* with a ValidationError, code validation_error, message "Name cannot be   *)
(* empty", and the transport is not invoked in that call.                   *)
C1_BlankNameRejected ==
  (call.op = "updateProfile" /\ IsBlankName(The(call.data).name)) =>
    /\ call.pc = "rejected"
    /\ IsValidationError(The(call.error), MsgNameEmpty)
    /\ call.fetchLog = <<>>
    /\ call.transport = "none"

C1_Witness ==
  /\ call.op = "updateProfile"
  /\ The(call.data).name # Undefined
  /\ Len(The(The(call.data).name)) > 0
  /\ IsBlankName(The(call.data).name)
  /\ call.pc = "rejected"

(* C2: the length limit of updateProfile applies to the trimmed name, with *)
(* the boundary at 255: a trimmed length above 255 rejects with            *)
(* ValidationError "Name cannot exceed 255 characters" without a transport *)
(* call; a trimmed length of exactly 255 is transmitted.                   *)
C2_LengthBoundary ==
  (call.op = "updateProfile" /\ The(call.data).name # Undefined) =>
    LET trimmed == Trim(The(The(call.data).name))
    IN /\ Len(trimmed) >= 256 =>
            /\ call.pc = "rejected"
            /\ IsValidationError(The(call.error), MsgNameTooLong)
            /\ call.fetchLog = <<>>
       /\ Len(trimmed) = 255 =>
            /\ Len(call.fetchLog) = 1
            /\ Invocation.options.body # Undefined
            /\ JSONParse(The(Invocation.options.body))
                 = Some([name |-> trimmed])

C2_Witness ==
  /\ call.op = "updateProfile"
  /\ The(call.data).name # Undefined
  /\ Len(The(The(call.data).name)) > 255
  /\ Len(Trim(The(The(call.data).name))) = 255
  /\ Len(call.fetchLog) = 1

(* C3: for a name whose trimmed value is non-empty and at most 255 long,   *)
(* updateProfile invokes the transport once with PUT, the client's baseUrl *)
(* followed by /oauth2/me, the three fixed headers with Bearer <token>,    *)
(* and a JSON body whose only field is name, equal to the trimmed name;    *)
(* the call resolves to the body the transport's response parsed to.       *)
C3_UpdateRequest ==
  (/\ call.op = "updateProfile"
   /\ ~IsBlankName(The(call.data).name)
   /\ Len(Trim(The(The(call.data).name))) <= 255) =>
    /\ Len(call.fetchLog) = 1
    /\ Invocation.impl = The(client).fetchImpl
    /\ Invocation.url = The(client).baseUrl \o <<"/", "oauth2", "/", "me">>
    /\ Invocation.options.method = "PUT"
    /\ FixedHeaders(The(client).accessToken)
    /\ Invocation.options.body # Undefined
    /\ JSONParse(The(Invocation.options.body))
         = Some([name |-> Trim(The(The(call.data).name))])
    /\ call.pc = "resolved" =>
         /\ The(call.response).ok
         /\ The(call.read).settled = "resolved"
         /\ call.result = Some(The(call.read).value)

C3_Witness ==
  /\ call.op = "updateProfile"
  /\ call.pc = "resolved"
  /\ The(The(call.data).name) # Trim(The(The(call.data).name))
  /\ "\"" \in Range(The(The(call.data).name))
  /\ The(call.result) # Undefined

(* C4: when the transport resolves a success response whose body parses to *)
(* a profile, getProfile resolves to that profile, and the transport was   *)
(* invoked exactly once, with GET, the client's baseUrl followed by        *)
(* /oauth2/userinfo, the three fixed headers, and no body.                 *)
C4_GetProfile ==
  (/\ call.op = "getProfile"
   /\ call.response # Undefined
   /\ The(call.response).ok
   /\ call.read # Undefined
   /\ The(call.read).settled = "resolved") =>
    /\ call.pc = "resolved"
    /\ call.result = Some(The(call.read).value)
    /\ call.error = Undefined
    /\ Len(call.fetchLog) = 1
    /\ Invocation.impl = The(client).fetchImpl
    /\ Invocation.url
         = The(client).baseUrl \o <<"/", "oauth2", "/", "userinfo">>
    /\ Invocation.options.method = "GET"
    /\ FixedHeaders(The(client).accessToken)
    /\ Invocation.options.body = Undefined

C4_Witness ==
  /\ call.op = "getProfile"
  /\ call.pc = "resolved"
  /\ The(call.result) # Undefined
  /\ The(client).accessToken = <<" ", "tok2", " ">>

(* C5: constructing a client throws when baseUrl is empty, unparseable or  *)
(* not http/https, and when accessToken is empty, not a string or white    *)
(* space only; then no client exists and the transport is not invoked;     *)
(* a bad baseUrl is reported before a bad accessToken.                     *)
IsBaseUrlError(e) ==
  \/ e.message = MsgBaseUrlRequired
  \/ /\ Len(e.message) >= 3
     /\ SubSeq(e.message, 1, 3) = <<"Invalid", " ", "baseUrl">>

IsTokenError(e) == e.message \in {MsgTokenRequired, MsgTokenEmpty}

C5_ConstructorRejects ==
  ctor # Undefined =>
    LET config == The(ctor).config
        badUrl == config.baseUrl \notin {Some(u) : u \in ValidBaseUrls}
        badToken == config.accessToken \in InvalidTokens
    IN /\ (badUrl \/ badToken) =>
            /\ The(ctor).thrown # Undefined
            /\ client = Undefined
            /\ call = IdleCall
       /\ badUrl => IsBaseUrlError(The(The(ctor).thrown))
       /\ (~badUrl /\ badToken) => IsTokenError(The(The(ctor).thrown))

C5_Witness ==
  /\ ctor # Undefined
  /\ The(ctor).config.baseUrl \in {Some(u) : u \in NonHttpBaseUrls}
  /\ The(ctor).config.accessToken \in BlankTokens
  /\ The(ctor).thrown # Undefined

----------------------------------------------------------------------------
\* The call was rejected after a non-success response with this status.
RejectedByStatus(status) ==
  /\ call.pc = "rejected"
  /\ call.response # Undefined
  /\ ~The(call.response).ok
  /\ The(call.response).status = status

\* The body of the response parsed to an object (not to null).
PayloadRead ==
  /\ call.read # Undefined
  /\ The(call.read).settled = "resolved"
  /\ The(call.read).value # Undefined

ThePayload == The(The(call.read).value)

IsNetworkError(e) ==
  /\ e.kind = "AuthallaNetworkError"
  /\ e.code = Some("network_error")
  /\ e.status = Undefined

(* C6: for every non-success response with status 401, whatever error code *)
(* the payload carries, the call rejects with an AuthenticationError with  *)
(* status 401 whose code is the payload's error value.                     *)
C6_Unauthorized ==
  (RejectedByStatus(401) /\ PayloadRead /\ ThePayload.error # Undefined) =>
    /\ The(call.error).kind = "AuthallaAuthenticationError"
    /\ The(call.error).status = Some(401)
    /\ The(call.error).code = ThePayload.error

(* C6 as amended: for every non-success response with status 401 the call *)
(* rejects with an AuthenticationError with status 401 whose code is the  *)
(* payload's error value when that is a non-empty string, and             *)
(* unknown_error when the payload's error is empty or missing.            *)
C6_UnauthorizedCode ==
  RejectedByStatus(401) =>
    /\ The(call.error).kind = "AuthallaAuthenticationError"
    /\ The(call.error).status = Some(401)
    /\ PayloadRead =>
         The(call.error).code
           = IF ThePayload.error \in {Undefined, Some("")}
             THEN Some("unknown_error")
             ELSE ThePayload.error

C6_Witness ==
  /\ RejectedByStatus(401)
  /\ PayloadRead
  /\ ThePayload.error = Some("insufficient_scope")
  /\ call.op = "updateProfile"

(* C7: for every non-success response with status 429 the call rejects     *)
(* with a RateLimitError whose code is rate_limit_exceeded and whose       *)
(* status is 429, whatever the payload's error; of the payload only the    *)
(* description is taken, as the message.                                   *)
C7_RateLimit ==
  RejectedByStatus(429) =>
    /\ The(call.error).kind = "AuthallaRateLimitError"
    /\ The(call.error).code = Some("rate_limit_exceeded")
    /\ The(call.error).status = Some(429)
    /\ The(call.error).details = Undefined
    /\ (PayloadRead /\ ThePayload.error_description \notin {Undefined, Some(<<>>)})
         => The(call.error).message = The(ThePayload.error_description)

C7_Witness ==
  /\ RejectedByStatus(429)
  /\ PayloadRead
  /\ ThePayload.error = Some("rate_limited")
  /\ ThePayload.details # Undefined

(* C8: when the timer expires while the transport's promise is still       *)
(* pending, the call is rejected with a NetworkError, code network_error,  *)
(* no status, whose message contains "timeout"; the transport need not     *)
(* settle for that.                                                        *)
C8_Timeout ==
  (call.timer = "fired" /\ call.transport = "pending") =>
    /\ call.pc = "rejected"
    /\ IsNetworkError(The(call.error))
    /\ "timeout" \in Range(The(call.error).message)

C8_Witness ==
  /\ call.timer = "fired"
  /\ call.transport = "pending"
  /\ call.pc = "rejected"
  /\ The(client).timeout = 50

(* C9: when the transport rejects with an Error that is not a taxonomy     *)
(* error the call rejects with a NetworkError whose message is "Network    *)
(* request failed: " followed by the underlying message and whose details  *)
(* is the original error; a taxonomy error is re-raised unchanged.         *)
C9_TransportRejection ==
  (/\ call.pc = "rejected"
   /\ call.race = "transport" \/ call.transport = "threw"
   /\ call.response = Undefined) =>
    LET e == The(call.caught)
    IN /\ e.kind \in AuthallaKinds => call.error = Some(e)
       /\ e.kind \in ErrorKinds \ AuthallaKinds =>
            /\ IsNetworkError(The(call.error))
            /\ The(call.error).message
                 = <<"Network", " ", "request", " ", "failed", ":", " ">>
                     \o e.message
            /\ The(call.error).details = Some(e)

C9_Witness ==
  /\ call.pc = "rejected"
  /\ call.race = "transport"
  /\ call.caught = Some(ConnectionError)
  /\ call.timer = "armed"

\* The call was rejected because the body of a success response did not
\* parse.
ParseFailedOnSuccess ==
  /\ call.pc = "rejected"
  /\ call.response # Undefined
  /\ The(call.response).ok
  /\ call.read # Undefined
  /\ The(call.read).settled = "rejected"
  /\ The(call.read).value.kind = "SyntaxError"

(* C10 as stated: when the body of a success response fails to parse, the  *)
(* call rejects with the parse failure itself, not a taxonomy error.       *)
C10_RawParseFailure ==
  ParseFailedOnSuccess => call.error = Some(The(call.read).value)

(* C10 as amended: when the body of a success response fails to parse, the *)
(* call rejects with a NetworkError, code network_error, no status, whose  *)
(* message is "Network request failed: " followed by the parse failure's   *)
(* message and whose details is the parse failure.                         *)
C10_ParseFailureWrapped ==
  ParseFailedOnSuccess =>
    /\ IsNetworkError(The(call.error))
    /\ The(call.error).message
         = <<"Network", " ", "request", " ", "failed", ":", " ">>
             \o The(call.read).value.message
    /\ The(call.error).details = Some(The(call.read).value)

C10_Witness ==
  /\ ParseFailedOnSuccess
  /\ call.op = "getProfile"
  /\ call.timer = "fired"

----------------------------------------------------------------------------
\* The call was rejected after a non-success response.
RejectedByResponse ==
  /\ call.pc = "rejected"
  /\ call.response # Undefined
  /\ ~The(call.response).ok

TheStatus == The(call.response).status

\* The body of the response parsed to an object whose error is `code`.
PayloadErrorIs(code) == PayloadRead /\ ThePayload.error = Some(code)

IsBaseError(e, status) == e.kind = "AuthallaError" /\ e.status = Some(status)

(* C11: the failure classifier raises an error for every non-success       *)
(* response, the variant and status fixed by the status and the payload's  *)
(* error code: 400 with validation_error gives ValidationError, any other  *)
(* 400 the base error with status 400; 403 with insufficient_scope gives   *)
(* AuthenticationError with status 403, any other 403 the base error with  *)
(* status 403; every status outside {400, 401, 403, 429} gives the base    *)
(* error, not a subclass, with the status of the response.                 *)
C11_PriorityTable ==
  /\ (call.response # Undefined /\ ~The(call.response).ok
        /\ call.read # Undefined) =>
       (call.pc = "rejected" /\ call.error # Undefined)
  /\ RejectedByResponse =>
       LET e == The(call.error)
       IN /\ TheStatus = 400 =>
               IF PayloadErrorIs("validation_error")
               THEN e.kind = "AuthallaValidationError" /\ e.status = Some(400)
               ELSE IsBaseError(e, 400)
          /\ TheStatus = 403 =>
               IF PayloadErrorIs("insufficient_scope")
               THEN e.kind = "AuthallaAuthenticationError"
                    /\ e.status = Some(403)
               ELSE IsBaseError(e, 403)
          /\ TheStatus \notin {400, 401, 403, 429} => IsBaseError(e, TheStatus)

C11_Witness ==
  /\ RejectedByResponse
  /\ TheStatus = 403
  /\ PayloadErrorIs("validation_error")
  /\ The(call.error).kind = "AuthallaError"

(* C12 as stated: every error the classifier raises, of every variant,     *)
(* carries the payload's error_description as message when it is present   *)
(* (otherwise "An error occurred"), the payload's error as code when it is *)
(* present (otherwise unknown_error), and the payload's details.           *)
C12_EveryVariantCarriesPayload ==
  (RejectedByResponse /\ PayloadRead) =>
    LET e == The(call.error)
    IN /\ e.message = IF ThePayload.error_description = Undefined
                      THEN <<"An", " ", "error", " ", "occurred">>
                      ELSE The(ThePayload.error_description)
       /\ e.code = IF ThePayload.error = Undefined
                   THEN Some("unknown_error")
                   ELSE ThePayload.error
       /\ e.details = ThePayload.details

(* C12 as amended: every error the classifier raises carries the payload's *)
(* error_description as message when it is a non-empty string (otherwise   *)
(* "An error occurred"); every variant but RateLimitError carries the      *)
(* payload's error as code when it is a non-empty string (otherwise        *)
(* unknown_error) and the payload's details; RateLimitError carries the    *)
(* code rate_limit_exceeded and no details.                                *)
C12_PayloadCarried ==
  (RejectedByResponse /\ PayloadRead) =>
    LET e == The(call.error)
    IN /\ e.message = IF ThePayload.error_description \in {Undefined, Some(<<>>)}
                      THEN <<"An", " ", "error", " ", "occurred">>
                      ELSE The(ThePayload.error_description)
       /\ IF TheStatus = 429
          THEN /\ e.kind = "AuthallaRateLimitError"
               /\ e.code = Some("rate_limit_exceeded")
               /\ e.details = Undefined
          ELSE /\ e.kind # "AuthallaRateLimitError"
               /\ e.code = IF ThePayload.error \in {Undefined, Some("")}
                           THEN Some("unknown_error")
                           ELSE ThePayload.error
               /\ e.details = ThePayload.details

C12_Witness ==
  /\ RejectedByResponse
  /\ PayloadRead
  /\ The(call.error).kind = "AuthallaValidationError"
  /\ The(call.error).details # Undefined

MsgRequestTimeout(ms) ==
  <<"Request", " ", "timeout", " ", "after", " ", ToString(ms), "ms">>

Settled == call.pc \in {"resolved", "rejected"}

(* C15: a call settles exactly once, with the outcome of whichever of the  *)
(* transport and the timer settles first: when the timer wins, the call    *)
(* stays rejected with the timeout error whatever the transport does       *)
(* later; when the transport wins, the later expiry of the timer changes   *)
(* nothing; once settled, the outcome of a call never changes.             *)
C15_SettlesOnce ==
  /\ [](/\ call.race = "timer" =>
             /\ call.pc = "rejected"
             /\ call.response = Undefined
             /\ The(call.error).details
                  = Some(PlainError("Error",
                                    MsgRequestTimeout(The(client).timeout)))
        /\ call.race = "transport" =>
             /\ call.transport = "settled"
             /\ call.caught # Some(PlainError("Error",
                                MsgRequestTimeout(The(client).timeout))))
  /\ [][/\ (Settled /\ call'.pc # "idle") =>
              /\ call'.pc = call.pc
              /\ call'.result = call.result
              /\ call'.error = call.error
        /\ (call.race \in {"timer", "transport"} /\ call'.pc # "idle") =>
              call'.race = call.race
     ]_vars

C15_Witness ==
  /\ call.race = "timer"
  /\ call.transport = "settled"
  /\ call.pc = "rejected"
  /\ call.op = "getProfile"

(* C16: a call never retries: it invokes the transport at most once,       *)
(* exactly once when local validation passes and not at all when it fails, *)
(* whatever the outcome of the call.                                       *)
C16_NoRetry ==
  call.op # "none" =>
    LET invalid ==
          /\ call.op = "updateProfile"
          /\ \/ IsBlankName(The(call.data).name)
             \/ Len(Trim(The(The(call.data).name))) > 255
    IN Len(call.fetchLog) = IF invalid THEN 0 ELSE 1

C16_Witness ==
  /\ call.pc = "rejected"
  /\ call.race = "transport"
  /\ call.response = Undefined
  /\ Len(call.fetchLog) = 1
  /\ The(call.caught).kind = "TypeError"

(* C17 as stated: every failure of getProfile and updateProfile is one of  *)
(* the five taxonomy variants, whatever the transport does, also when it   *)
(* rejects with a value that is not an Error object (null, undefined).     *)
C17_ClosedTaxonomy ==
  call.pc = "rejected" => The(call.error).kind \in AuthallaKinds

(* C18 as stated: when the timer expires before the transport settles the  *)
(* call rejects with a NetworkError whose message is exactly               *)
(* `Request timeout after <ms>ms`, <ms> the client's timeout.              *)
C18_BareTimeoutMessage ==
  call.race = "timer" =>
    /\ IsNetworkError(The(call.error))
    /\ The(call.error).message = MsgRequestTimeout(The(client).timeout)

(* C18 as amended: when the timer expires before the transport settles the *)
(* call rejects with a NetworkError whose message is exactly               *)
(* `Network request failed: Request timeout after <ms>ms` and whose        *)
(* details is the Error with message `Request timeout after <ms>ms`, <ms>  *)
(* the client's timeout in milliseconds.                                   *)
C18_TimeoutMessage ==
  call.race = "timer" =>
    /\ IsNetworkError(The(call.error))
    /\ The(call.error).message
         = <<"Network", " ", "request", " ", "failed", ":", " ">>
             \o MsgRequestTimeout(The(client).timeout)
    /\ The(call.error).details
         = Some(PlainError("Error", MsgRequestTimeout(The(client).timeout)))

C18_Witness ==
  /\ call.race = "timer"
  /\ The(client).timeout = 50
  /\ call.op = "updateProfile"
  /\ "50" \in Range(The(call.error).message)

\* The body of a non-success response could not be parsed.
ErrorBodyUnparseable ==
  /\ call.response # Undefined
  /\ ~The(call.response).ok
  /\ call.read # Undefined
  /\ The(call.read).settled = "rejected"

\* response.statusText || "Unknown error occurred"
StatusTextOrDefault ==
  IF The(call.response).statusText = <<>>
  THEN <<"Unknown", " ", "error", " ", "occurred">>
  ELSE The(call.response).statusText

\* The variant the classifier raises for a payload with code unknown_error.
VariantByStatusAlone ==
  CASE TheStatus = 401 -> "AuthallaAuthenticationError"
    [] TheStatus = 429 -> "AuthallaRateLimitError"
    [] OTHER -> "AuthallaError"

(* C19 as stated: when the body of a non-success response cannot be parsed *)
(* the call rejects with the error its status alone selects, with message  *)
(* the status text ("Unknown error occurred" when it is empty) and code    *)
(* unknown_error; the parse failure is never raised.                       *)
C19_UnparseableIsUnknownError ==
  ErrorBodyUnparseable =>
    /\ call.pc = "rejected"
    /\ The(call.error).kind = VariantByStatusAlone
    /\ The(call.error).status = Some(TheStatus)
    /\ The(call.error).message = StatusTextOrDefault
    /\ The(call.error).code = Some("unknown_error")
    /\ The(call.error) # The(call.read).value

(* C19 as amended: when the body of a non-success response cannot be       *)
(* parsed the call rejects with the error its status alone selects, with   *)
(* message the status text ("Unknown error occurred" when it is empty), no *)
(* details, and code unknown_error, except for status 429, whose           *)
(* RateLimitError keeps the code rate_limit_exceeded; the parse failure is *)
(* never raised.                                                           *)
C19_UnparseableBody ==
  ErrorBodyUnparseable =>
    /\ call.pc = "rejected"
    /\ The(call.error).kind = VariantByStatusAlone
    /\ The(call.error).status = Some(TheStatus)
    /\ The(call.error).message = StatusTextOrDefault
    /\ The(call.error).code = IF TheStatus = 429
                              THEN Some("rate_limit_exceeded")
                              ELSE Some("unknown_error")
    /\ The(call.error).details = Undefined
    /\ The(call.error) # The(call.read).value

C19_Witness ==
  /\ ErrorBodyUnparseable
  /\ TheStatus = 401
  /\ The(call.error).message = <<"Unauthorized">>
  /\ The(call.error).code = Some("unknown_error")

\* A client was constructed from the base url `url`.
ConstructedFrom(url) ==
  /\ ctor # Undefined
  /\ client # Undefined
  /\ The(ctor).config.baseUrl = Some(url)

\* The number of "/" that `url` ends with.
RECURSIVE TrailingSlashes(_)
TrailingSlashes(url) ==
  IF url # <<>> /\ url[Len(url)] = "/"
  THEN 1 + TrailingSlashes(SubSeq(url, 1, Len(url) - 1))
  ELSE 0

(* C20 as stated: normalizeBaseUrl strips exactly one trailing "/" when    *)
(* present and is idempotent, so the baseUrl held by a constructed client  *)
(* never ends with "/".                                                    *)
C20_Idempotent ==
  \A url \in ValidBaseUrls :
    ConstructedFrom(url) =>
      /\ TrailingSlashes(The(client).baseUrl)
           = IF TrailingSlashes(url) = 0 THEN 0 ELSE TrailingSlashes(url) - 1
      /\ normalizeBaseUrl(normalizeBaseUrl(url)) = normalizeBaseUrl(url)
      /\ TrailingSlashes(The(client).baseUrl) = 0

(* C20 as amended: normalizeBaseUrl strips exactly one trailing "/" when   *)
(* present; applying it again changes the result exactly when the url ends *)
(* with two or more "/", so the baseUrl held by a constructed client ends  *)
(* with "/" exactly when the configured url ends with two or more.         *)
C20_StripsOne ==
  \A url \in ValidBaseUrls :
    ConstructedFrom(url) =>
      LET held == The(client).baseUrl
      IN /\ IF TrailingSlashes(url) = 0
            THEN held = url
            ELSE held \o <<"/">> = url
         /\ (normalizeBaseUrl(normalizeBaseUrl(url)) = normalizeBaseUrl(url))
              <=> TrailingSlashes(url) < 2
         /\ TrailingSlashes(held) > 0 <=> TrailingSlashes(url) >= 2

C20_Witness ==
  /\ \E url \in ValidBaseUrls :
       ConstructedFrom(url) /\ TrailingSlashes(url) = 2
  /\ TrailingSlashes(The(client).baseUrl) = 1

\* The Authorization header of the request the call numbered k sent.
Authorization(k) == calls[k].fetchLog[1].options.headers["Authorization"]

Sent(k) == calls[k].fetchLog # <<>>

(* C14: under any interleaving of getProfile and updateProfile calls with  *)
(* setAccessToken calls on one client, the Authorization header of a       *)
(* request is `Bearer` and the token the client held when its call was     *)
(* started; a setAccessToken while requests are in flight changes neither  *)
(* their headers nor the state or outcome of their calls.                  *)
C14_TokenAtStart ==
  [][\A k \in 1..MaxCalls :
       /\ (calls[k].op = "none" /\ calls'[k].op # "none") =>
            /\ Sent(k)'
            /\ Authorization(k)' = <<"Bearer", " ">> \o The(client).accessToken
       /\ calls[k].op # "none" => calls'[k].fetchLog = calls[k].fetchLog
       /\ (client' # client \/ setter' # setter) => calls'[k] = calls[k]
    ]_vars

C14_Witness ==
  /\ calls[1].pc = "resolved"
  /\ Authorization(1) = <<"Bearer", " ", "tok1">>
  /\ calls[2].pc = "awaitFetch"
  /\ Authorization(2) = <<"Bearer", " ", " ", "tok2", " ">>
  /\ The(client).accessToken = <<"tok1">>

\* The fields of a client that are fixed at construction.
Fixed(c) == <<c.baseUrl, c.timeout, c.fetchImpl>>

(* C21: after construction the baseUrl, the timeout and the transport of a *)
(* client never change and the client is never lost; setAccessToken        *)
(* changes only the token; getProfile and updateProfile, through every     *)
(* step and outcome of their calls, change no field of the client; and no  *)
(* operation on one client changes a field of the other.                   *)
C21_Frame ==
  [][/\ client # Undefined =>
          /\ client' # Undefined
          /\ Fixed(The(client'))  = Fixed(The(client))
          /\ DOMAIN The(client') = DOMAIN The(client)
     /\ (client # Undefined /\ client' # client) =>
          /\ setter' # Undefined
          /\ The(setter').thrown = Undefined
          /\ The(client').accessToken = The(setter').token.str
     /\ (call' # call /\ setter' = Undefined /\ client # Undefined) =>
          client' = client
     /\ other # Undefined =>
          /\ other' # Undefined
          /\ Fixed(The(other')) = Fixed(The(other))
     /\ <<client, ctor, setter, call>>' # <<client, ctor, setter, call>> =>
          other' = other
     /\ other' # other => <<client, ctor, setter, call>>' = <<client, ctor, setter, call>>
    ]_vars

C21_Witness ==
  /\ other # Undefined
  /\ The(other).accessToken = <<"tok4">>
  /\ client # Undefined
  /\ The(client).accessToken = <<" ", "tok2", " ">>
  /\ call.pc = "rejected"
  /\ call.race = "timer"

\* The call passed local validation and has not settled.
Outstanding == call.pc \in {"awaitFetch", "awaitJson", "awaitErrorJson"}

(* C22 as stated: every getProfile or updateProfile call that passes local *)
(* validation eventually resolves or rejects, assuming only that the timer *)
(* eventually fires, whatever the transport does, also when it resolves a  *)
(* response whose body read never settles.                                 *)
C22_EventuallySettles == Outstanding ~> Settled

(* C23 as stated: for every response the transport resolves, json() is     *)
(* called exactly once per call: by the failure classifier when the        *)
(* response is non-success, by the success path otherwise, never by both.  *)
C23_ReadOncePerResponse ==
  (call.response # Undefined \/ call.dropped # Undefined) =>
    call.jsonReads = 1

(* C23 as amended: for every response the transport resolves before the    *)
(* timer expires, json() is called exactly once per call: by the failure   *)
(* classifier when the response is non-success, and the call then rejects  *)
(* without reaching the success path; by the success path otherwise.  A    *)
(* response the transport resolves after the timer has expired is dropped  *)
(* and its body is never read.                                             *)
C23_ReadOnce ==
  /\ call.response # Undefined =>
       /\ call.jsonReads = 1
       /\ call.race = "transport"
       /\ call.pc \in (IF The(call.response).ok
                       THEN {"awaitJson", "resolved", "rejected"}
                       ELSE {"awaitErrorJson", "rejected"})
       /\ (Settled /\ ~The(call.response).ok /\ The(call.error).status # Undefined)
            => The(call.error).status = Some(TheStatus)
  /\ call.response = Undefined => call.jsonReads = 0
  /\ call.dropped # Undefined =>
       /\ call.race = "timer"
       /\ call.response = Undefined
       /\ call.read = Undefined

C23_Witness ==
  /\ call.response # Undefined
  /\ TheStatus = 418
  /\ call.pc = "rejected"
  /\ call.read # Undefined
  /\ call.jsonReads = 1
  /\ call.timer = "fired"

====
